---------------------------- MODULE Spec2Model ----------------------------
(***************************************************************************)
(* BidirectionalMap (src/data_structures/bidirectional_map.ts): a Map      *)
(* subclass that keeps a private reverse Map, so that entries can be       *)
(* looked up by key and by value.                                          *)
(*                                                                         *)
(* The inherited Map (the forward mapping) is a sequence of <<key, value>> *)
(* pairs in insertion order, as iteration of a Map observes it.  The       *)
(* private #reverseMap is never iterated by any method, so it is a         *)
(* function from the values it holds to their keys.                        *)
(***************************************************************************)
EXTENDS Naturals, Sequences, FiniteSets

(* Bounds of the model. *)
NumKeys == 3
NumValues == 3
NumKeysU == 2
NumValuesU == 2
MaxIter == 3

(* The data a caller can pass.  Undefined is the language's `undefined`,   *)
(* which Map.prototype.get also returns for a key that is not in the Map.  *)
Undefined == "undefined"
KeyNames == <<"a", "b", "c", "d", "e">>
ValueNames == <<"one", "two", "three", "four", "five">>
Keys == {KeyNames[i] : i \in 1..NumKeys}
Values == {ValueNames[i] : i \in 1..NumValues}
KeysU == {KeyNames[i] : i \in 1..NumKeysU} \cup {Undefined}
ValuesU == {ValueNames[i] : i \in 1..NumValuesU} \cup {Undefined}

VARIABLES
    forward,     \* the inherited Map<K, V>: Seq of <<key, value>>, insertion order
    reverseMap,  \* #reverseMap: Map<V, K>, a function value -> key
    call,        \* the last public operation called: [op, args]
    ret,         \* what that call returned
    pre,         \* the container right before that call
    sets,        \* the pairs a caller passed to set, in order, on a new empty container
    frame,       \* the mutator in progress: its statement and its locals
    observed     \* what an observer last read, and at which statement of the mutator

vars == <<forward, reverseMap, call, ret, pre, sets, frame, observed>>

---------------------------------------------------------------------------
(* The built-in Map, forward side (insertion ordered). *)

MapHas(m, key) == \E i \in 1..Len(m) : m[i][1] = key

MapGet(m, key) ==
    IF MapHas(m, key)
    THEN m[CHOOSE i \in 1..Len(m) : m[i][1] = key][2]
    ELSE Undefined

MapSet(m, key, value) ==
    IF MapHas(m, key)
    THEN [i \in 1..Len(m) |-> IF m[i][1] = key THEN <<key, value>> ELSE m[i]]
    ELSE Append(m, <<key, value>>)

MapDelete(m, key) ==
    LET keep(e) == e[1] # key IN SelectSeq(m, keep)

MapSize(m) == Len(m)

(* The built-in Map, reverse side (order never observed). *)

RevHas(r, value) == value \in DOMAIN r

RevGet(r, value) == IF value \in DOMAIN r THEN r[value] ELSE Undefined

RevSet(r, value, key) ==
    [x \in (DOMAIN r) \cup {value} |-> IF x = value THEN key ELSE r[x]]

RevDelete(r, value) == [x \in (DOMAIN r) \ {value} |-> r[x]]

RevSize(r) == Cardinality(DOMAIN r)

EmptyMap == [forward |-> <<>>, reverseMap |-> <<>>]

---------------------------------------------------------------------------
(* The methods, as functions of the container `this`. *)

(* set without line 93: the old value's reverse entry is left behind. *)
setKeepsOldValue(this, key, value) ==
    LET oldKey == RevGet(this.reverseMap, value)
        f1 == IF oldKey # Undefined
              THEN MapDelete(this.forward, oldKey)
              ELSE this.forward
    IN  [forward |-> MapSet(f1, key, value),
         reverseMap |-> RevSet(this.reverseMap, value, key)]

(* set without line 97: the old key's forward entry is left behind. *)
setKeepsOldKey(this, key, value) ==
    LET oldValue == MapGet(this.forward, key)
        r1 == IF oldValue # Undefined
              THEN RevDelete(this.reverseMap, oldValue)
              ELSE this.reverseMap
    IN  [forward |-> MapSet(this.forward, key, value),
         reverseMap |-> RevSet(r1, value, key)]

(* set that empties the container before inserting the pair. *)
setEvictsAll(this, key, value) ==
    [forward |-> <<<<key, value>>>>, reverseMap |-> RevSet(<<>>, value, key)]

(* set that removes the key before writing it (an update as delete and    *)
(* insert), so that an existing key moves to the end.                      *)
setReinsertsKey(this, key, value) ==
    LET oldValue == MapGet(this.forward, key)
        r1 == IF oldValue # Undefined
              THEN RevDelete(this.reverseMap, oldValue)
              ELSE this.reverseMap
        oldKey == RevGet(r1, value)
        f1 == IF oldKey # Undefined
              THEN MapDelete(this.forward, oldKey)
              ELSE this.forward
    IN  [forward |-> MapSet(MapDelete(f1, key), key, value),
         reverseMap |-> RevSet(r1, value, key)]

(* set with lines 99-100 moved before line 95: the old key is looked up    *)
(* after the new pair is written.                                          *)
setEvictsAfterInsert(this, key, value) ==
    LET oldValue == MapGet(this.forward, key)
        r1 == IF oldValue # Undefined
              THEN RevDelete(this.reverseMap, oldValue)
              ELSE this.reverseMap
        f2 == MapSet(this.forward, key, value)
        r2 == RevSet(r1, value, key)
        oldKey == RevGet(r2, value)
    IN  [forward |-> IF oldKey # Undefined THEN MapDelete(f2, oldKey) ELSE f2,
         reverseMap |-> r2]

set(this, key, value) ==
    LET oldValue == MapGet(this.forward, key)
        r1 == IF oldValue # Undefined
              THEN RevDelete(this.reverseMap, oldValue)
              ELSE this.reverseMap
        oldKey == RevGet(r1, value)
        f1 == IF oldKey # Undefined
              THEN MapDelete(this.forward, oldKey)
              ELSE this.forward
    IN  [forward |-> MapSet(f1, key, value),
         reverseMap |-> RevSet(r1, value, key)]

(* delete without line 145: the reverse entry is left behind. *)
deleteKeepsReverse(this, key) ==
    LET value == MapGet(this.forward, key)
    IN  IF value = Undefined
        THEN [this |-> this, ret |-> FALSE]
        ELSE [this |-> [forward |-> MapDelete(this.forward, key),
                        reverseMap |-> this.reverseMap],
              ret |-> MapHas(this.forward, key)]

(* delete that reports a removal for a key that is not there. *)
deleteReturnsTrue(this, key) ==
    LET value == MapGet(this.forward, key)
    IN  IF value = Undefined
        THEN [this |-> this, ret |-> TRUE]
        ELSE [this |-> [forward |-> MapDelete(this.forward, key),
                        reverseMap |-> RevDelete(this.reverseMap, value)],
              ret |-> MapHas(this.forward, key)]

delete(this, key) ==
    LET value == MapGet(this.forward, key)
    IN  IF value = Undefined
        THEN [this |-> this, ret |-> FALSE]
        ELSE [this |-> [forward |-> MapDelete(this.forward, key),
                        reverseMap |-> RevDelete(this.reverseMap, value)],
              ret |-> MapHas(this.forward, key)]

(* deleteReverse without line 174: the forward entry is left behind. *)
deleteReverseKeepsForward(this, value) ==
    LET key == RevGet(this.reverseMap, value)
    IN  IF key = Undefined
        THEN [this |-> this, ret |-> FALSE]
        ELSE [this |-> [forward |-> this.forward,
                        reverseMap |-> RevDelete(this.reverseMap, value)],
              ret |-> RevHas(this.reverseMap, value)]

deleteReverse(this, value) ==
    LET key == RevGet(this.reverseMap, value)
    IN  IF key = Undefined
        THEN [this |-> this, ret |-> FALSE]
        ELSE [this |-> [forward |-> MapDelete(this.forward, key),
                        reverseMap |-> RevDelete(this.reverseMap, value)],
              ret |-> RevHas(this.reverseMap, value)]

(* clear without line 67: #reverseMap is left as it was. *)
clearKeepsReverse(this) == [forward |-> <<>>, reverseMap |-> this.reverseMap]

clear(this) == EmptyMap

get(this, key) == MapGet(this.forward, key)

getReverse(this, value) == RevGet(this.reverseMap, value)

has(this, key) == MapHas(this.forward, key)

hasReverse(this, value) == RevHas(this.reverseMap, value)

size(this) == MapSize(this.forward)

RECURSIVE SetAll(_, _)
SetAll(this, iterable) ==
    IF iterable = <<>>
    THEN this
    ELSE SetAll(set(this, Head(iterable)[1], Head(iterable)[2]), Tail(iterable))

(* A constructor that fills the two Maps with the built-in Map's set, so   *)
(* that no pair evicts another.                                            *)
RECURSIVE PlainAll(_, _)
PlainAll(this, iterable) ==
    IF iterable = <<>>
    THEN this
    ELSE PlainAll([forward |-> MapSet(this.forward, Head(iterable)[1],
                                      Head(iterable)[2]),
                   reverseMap |-> RevSet(this.reverseMap, Head(iterable)[2],
                                         Head(iterable)[1])],
                  Tail(iterable))

constructorPlain(iterable) == PlainAll(EmptyMap, iterable)

constructor(iterable) == SetAll(EmptyMap, iterable)

---------------------------------------------------------------------------
(* The state machine: one action per public operation. *)

This == [forward |-> forward, reverseMap |-> reverseMap]

Iterables(KS, VS) == UNION {[1..n -> KS \X VS] : n \in 0..MaxIter}

Returns(op, args, result, this) ==
    /\ forward' = this.forward
    /\ reverseMap' = this.reverseMap
    /\ call' = [op |-> op, args |-> args]
    /\ ret' = result
    /\ pre' = This
    /\ UNCHANGED <<sets, frame, observed>>

(* No mutator in progress; locals not yet assigned are `undefined`. *)
Idle == [pc |-> "idle", oldValue |-> Undefined, oldKey |-> Undefined,
         value |-> Undefined, key |-> Undefined]

NotObserved == [at |-> "never", this |-> EmptyMap]

New(KS, VS) ==
    \E iterable \in Iterables(KS, VS) :
        /\ forward = constructor(iterable).forward
        /\ reverseMap = constructor(iterable).reverseMap
        /\ call = [op |-> "constructor", args |-> <<iterable>>]
        /\ ret = "this"
        /\ pre = EmptyMap
        /\ sets = <<>>
        /\ frame = Idle
        /\ observed = NotObserved

CallSet(KS, VS) ==
    \E key \in KS, value \in VS :
        Returns("set", <<key, value>>, "this", set(This, key, value))

CallDelete(KS) ==
    \E key \in KS :
        Returns("delete", <<key>>, delete(This, key).ret, delete(This, key).this)

CallDeleteReverse(VS) ==
    \E value \in VS :
        Returns("deleteReverse", <<value>>, deleteReverse(This, value).ret,
                deleteReverse(This, value).this)

CallClear == Returns("clear", <<>>, Undefined, clear(This))

CallGet(KS) ==
    \E key \in KS : Returns("get", <<key>>, get(This, key), This)

(* getReverse that also removes the entry it found. *)
CallGetReverseTakes(VS) ==
    \E value \in VS :
        Returns("getReverse", <<value>>, getReverse(This, value),
                deleteReverse(This, value).this)

CallGetReverse(VS) ==
    \E value \in VS :
        Returns("getReverse", <<value>>, getReverse(This, value), This)

CallHas(KS) ==
    \E key \in KS : Returns("has", <<key>>, has(This, key), This)

CallHasReverse(VS) ==
    \E value \in VS :
        Returns("hasReverse", <<value>>, hasReverse(This, value), This)

(* Callers that never pass `undefined` as a key or a value. *)
Init == New(Keys, Values)

Next ==
    \/ CallSet(Keys, Values)
    \/ CallDelete(Keys)
    \/ CallDeleteReverse(Values)
    \/ CallClear
    \/ CallGet(Keys)
    \/ CallGetReverse(Values)
    \/ CallHas(Keys)
    \/ CallHasReverse(Values)

Spec == Init /\ [][Next]_vars

(* Callers that may pass `undefined` as a key or a value. *)
InitU == New(KeysU, ValuesU)

NextU ==
    \/ CallSet(KeysU, ValuesU)
    \/ CallDelete(KeysU)
    \/ CallDeleteReverse(ValuesU)
    \/ CallClear
    \/ CallGet(KeysU)
    \/ CallGetReverse(ValuesU)
    \/ CallHas(KeysU)
    \/ CallHasReverse(ValuesU)

SpecU == InitU /\ [][NextU]_vars

(* A caller that creates an empty container (the only iterable over no    *)
(* keys is the empty one) and calls set pair by pair.                      *)
InitC == New({}, {})

SetNext ==
    \E key \in Keys, value \in Values :
        /\ Len(sets) < MaxIter
        /\ forward' = set(This, key, value).forward
        /\ reverseMap' = set(This, key, value).reverseMap
        /\ call' = [op |-> "set", args |-> <<key, value>>]
        /\ ret' = "this"
        /\ pre' = This
        /\ sets' = Append(sets, <<key, value>>)
        /\ UNCHANGED <<frame, observed>>

NextC == SetNext

SpecC == InitC /\ [][NextC]_vars

---------------------------------------------------------------------------
(* The mutators statement by statement, with an observer that may read    *)
(* the container between any two statements.  One mutator runs at a time   *)
(* (a single writer); `call` and `pre` are set when it is called, `ret`    *)
(* when it returns.                                                        *)

At(pc) == frame.pc = pc

Goto(pc) == [frame EXCEPT !.pc = pc]

Begin(op, args, pc) ==
    /\ At("idle")
    /\ call' = [op |-> op, args |-> args]
    /\ ret' = Undefined
    /\ pre' = This
    /\ frame' = Goto(pc)
    /\ observed' = NotObserved
    /\ UNCHANGED <<forward, reverseMap, sets>>

Return(result) ==
    /\ ret' = result
    /\ frame' = Idle
    /\ UNCHANGED <<call, pre, sets, observed>>

Step(pc) ==
    /\ frame' = Goto(pc)
    /\ UNCHANGED <<call, ret, pre, sets, observed>>

(* set(key, value), lines 90-102 *)
BeginSet == \E key \in Keys, value \in Values : Begin("set", <<key, value>>, "set91")

Set91 ==
    /\ At("set91")
    /\ frame' = [frame EXCEPT !.oldValue = MapGet(forward, call.args[1]),
                              !.pc = "set92"]
    /\ UNCHANGED <<forward, reverseMap, call, ret, pre, sets, observed>>

(* Line 93 left out. *)
Set92Skips ==
    /\ At("set92")
    /\ Step("set95")
    /\ UNCHANGED <<forward, reverseMap>>

Set92 ==
    /\ At("set92")
    /\ reverseMap' = IF frame.oldValue # Undefined
                     THEN RevDelete(reverseMap, frame.oldValue)
                     ELSE reverseMap
    /\ Step("set95")
    /\ UNCHANGED forward

Set95 ==
    /\ At("set95")
    /\ frame' = [frame EXCEPT !.oldKey = RevGet(reverseMap, call.args[2]),
                              !.pc = "set96"]
    /\ UNCHANGED <<forward, reverseMap, call, ret, pre, sets, observed>>

Set96 ==
    /\ At("set96")
    /\ forward' = IF frame.oldKey # Undefined
                  THEN MapDelete(forward, frame.oldKey)
                  ELSE forward
    /\ Step("set99")
    /\ UNCHANGED reverseMap

Set99 ==
    /\ At("set99")
    /\ forward' = MapSet(forward, call.args[1], call.args[2])
    /\ Step("set100")
    /\ UNCHANGED reverseMap

Set100 ==
    /\ At("set100")
    /\ reverseMap' = RevSet(reverseMap, call.args[2], call.args[1])
    /\ Step("set101")
    /\ UNCHANGED forward

Set101 ==
    /\ At("set101")
    /\ Return("this")
    /\ UNCHANGED <<forward, reverseMap>>

(* delete(key), lines 142-147 *)
BeginDelete == \E key \in Keys : Begin("delete", <<key>>, "delete143")

Delete143 ==
    /\ At("delete143")
    /\ frame' = [frame EXCEPT !.value = MapGet(forward, call.args[1]),
                              !.pc = "delete144"]
    /\ UNCHANGED <<forward, reverseMap, call, ret, pre, sets, observed>>

Delete144 ==
    /\ At("delete144")
    /\ IF frame.value = Undefined THEN Return(FALSE) ELSE Step("delete145")
    /\ UNCHANGED <<forward, reverseMap>>

Delete145 ==
    /\ At("delete145")
    /\ reverseMap' = RevDelete(reverseMap, frame.value)
    /\ Step("delete146")
    /\ UNCHANGED forward

Delete146 ==
    /\ At("delete146")
    /\ forward' = MapDelete(forward, call.args[1])
    /\ Return(MapHas(forward, call.args[1]))
    /\ UNCHANGED reverseMap

(* deleteReverse(value), lines 169-176 *)
BeginDeleteReverse ==
    \E value \in Values : Begin("deleteReverse", <<value>>, "deleteReverse170")

DeleteReverse170 ==
    /\ At("deleteReverse170")
    /\ frame' = [frame EXCEPT !.key = RevGet(reverseMap, call.args[1]),
                              !.pc = "deleteReverse171"]
    /\ UNCHANGED <<forward, reverseMap, call, ret, pre, sets, observed>>

DeleteReverse171 ==
    /\ At("deleteReverse171")
    /\ IF frame.key = Undefined THEN Return(FALSE) ELSE Step("deleteReverse174")
    /\ UNCHANGED <<forward, reverseMap>>

DeleteReverse174 ==
    /\ At("deleteReverse174")
    /\ forward' = MapDelete(forward, frame.key)
    /\ Step("deleteReverse175")
    /\ UNCHANGED reverseMap

DeleteReverse175 ==
    /\ At("deleteReverse175")
    /\ reverseMap' = RevDelete(reverseMap, call.args[1])
    /\ Return(RevHas(reverseMap, call.args[1]))
    /\ UNCHANGED forward

(* The observer reads both mappings through the lookups, between two       *)
(* statements of the mutator or while none runs.                           *)
Observe ==
    /\ observed' = [at |-> frame.pc, this |-> This]
    /\ UNCHANGED <<forward, reverseMap, call, ret, pre, sets, frame>>

NextS ==
    \/ BeginSet \/ Set91 \/ Set92 \/ Set95 \/ Set96 \/ Set99 \/ Set100 \/ Set101
    \/ BeginDelete \/ Delete143 \/ Delete144 \/ Delete145 \/ Delete146
    \/ BeginDeleteReverse \/ DeleteReverse170 \/ DeleteReverse171
    \/ DeleteReverse174 \/ DeleteReverse175
    \/ Observe

SpecS == Init /\ [][NextS]_vars

---------------------------------------------------------------------------
(* Properties. *)

Called(op) == call.op = op

(* C1 (I1): with no `undefined` data, the forward and the reverse mapping  *)
(* are exact inverses: for every key k and value v, get(k) = v if and only *)
(* if getReverse(v) = k.                                                   *)
ForwardReverseInverse ==
    \A k \in Keys, v \in Values :
        (get(This, k) = v) <=> (getReverse(This, v) = k)

(* C1 witness: a set that evicted entries returned, entries remain. *)
ForwardReverseInverseWitness ==
    /\ Called("set")
    /\ size(pre) = 3
    /\ size(This) = 2
    /\ \E k \in Keys, v \in Values : get(This, k) = v /\ getReverse(This, v) = k

(* C2 (I3): with no `undefined` data, after every operation the forward    *)
(* mapping and the reverse mapping hold the same number of entries, which  *)
(* is the reported size.                                                   *)
SizesAgree ==
    /\ MapSize(forward) = RevSize(reverseMap)
    /\ size(This) = RevSize(reverseMap)
    /\ size(This) = Cardinality({k \in Keys : has(This, k)})
    /\ size(This) = Cardinality({v \in Values : hasReverse(This, v)})

(* C2 witness: a delete removed one of several entries. *)
SizesAgreeWitness ==
    /\ Called("delete")
    /\ ret = TRUE
    /\ size(pre) = 3
    /\ size(This) = 2
    /\ RevSize(reverseMap) = 2

(* C3 (I2): no value is held by two distinct keys and no key by two        *)
(* distinct values: both mappings are injective, and the forward mapping   *)
(* lists no key twice.                                                     *)
Injective ==
    /\ \A k1, k2 \in Keys :
           (k1 # k2 /\ has(This, k1) /\ has(This, k2))
               => get(This, k1) # get(This, k2)
    /\ \A v1, v2 \in Values :
           (v1 # v2 /\ hasReverse(This, v1) /\ hasReverse(This, v2))
               => getReverse(This, v1) # getReverse(This, v2)
    /\ \A i, j \in 1..Len(forward) :
           i # j => forward[i][1] # forward[j][1]

(* C3 witness: set reused a value held by another key, and two entries     *)
(* are in the container afterwards.                                        *)
InjectiveWitness ==
    /\ Called("set")
    /\ hasReverse(pre, call.args[2])
    /\ getReverse(pre, call.args[2]) # call.args[1]
    /\ size(This) >= 2

(* The cases of set(key, value), read from the container before the call. *)
ValueCollision ==
    /\ Called("set")
    /\ hasReverse(pre, call.args[2])
    /\ getReverse(pre, call.args[2]) # call.args[1]
    /\ ~has(pre, call.args[1])

KeyCollision ==
    /\ Called("set")
    /\ has(pre, call.args[1])
    /\ get(pre, call.args[1]) # call.args[2]
    /\ ~hasReverse(pre, call.args[2])

DoubleCollision ==
    /\ Called("set")
    /\ has(pre, call.args[1])
    /\ get(pre, call.args[1]) # call.args[2]
    /\ hasReverse(pre, call.args[2])
    /\ getReverse(pre, call.args[2]) # call.args[1]

(* C4: when value v is held by k1 and set(k2, v) is called with k2 # k1    *)
(* and k2 not present, then afterwards get(k2) = v, k1 is absent,          *)
(* getReverse(v) = k2 and size is unchanged.                               *)
ValueCollisionEvictsOldKey ==
    ValueCollision =>
        LET k2 == call.args[1]
            v == call.args[2]
            k1 == getReverse(pre, v)
        IN  /\ get(This, k2) = v
            /\ get(This, k1) = Undefined
            /\ ~has(This, k1)
            /\ getReverse(This, v) = k2
            /\ size(This) = size(pre)

(* C4 witness: the value-side collision on a one-entry map. *)
ValueCollisionWitness ==
    /\ ValueCollision
    /\ size(pre) = 1
    /\ size(This) = 1

(* C5: when key k maps to v1 and set(k, v2) is called with v2 # v1 and v2  *)
(* not present, then afterwards get(k) = v2, v1 has no reverse entry,      *)
(* getReverse(v2) = k and size is unchanged.                               *)
KeyCollisionEvictsOldValue ==
    KeyCollision =>
        LET k == call.args[1]
            v2 == call.args[2]
            v1 == get(pre, k)
        IN  /\ get(This, k) = v2
            /\ getReverse(This, v1) = Undefined
            /\ ~hasReverse(This, v1)
            /\ getReverse(This, v2) = k
            /\ size(This) = size(pre)

(* C5 witness: the key-side collision on a one-entry map. *)
KeyCollisionWitness ==
    /\ KeyCollision
    /\ size(pre) = 1
    /\ size(This) = 1

(* C6: when k maps to v1 and another key k2 maps to v2, set(k, v2) removes *)
(* both entries and leaves (k, v2): size decreases by exactly 1,           *)
(* get(k) = v2, getReverse(v2) = k, k2 and v1 are absent.                  *)
DoubleCollisionEvictsBoth ==
    DoubleCollision =>
        LET k == call.args[1]
            v2 == call.args[2]
            v1 == get(pre, k)
            k2 == getReverse(pre, v2)
        IN  /\ size(This) + 1 = size(pre)
            /\ get(This, k) = v2
            /\ getReverse(This, v2) = k
            /\ get(This, k2) = Undefined
            /\ ~has(This, k2)
            /\ getReverse(This, v1) = Undefined
            /\ ~hasReverse(This, v1)

(* C6 witness: set("a", 2) on {a -> 1, b -> 2} leaves one entry. *)
DoubleCollisionWitness ==
    /\ DoubleCollision
    /\ size(pre) = 2
    /\ size(This) = 1

(* C7: as the module's example states, on a new map after set(k1, v) and   *)
(* set(k2, v) with k1 # k2, size is 1, get(k1) still returns v and         *)
(* getReverse(v) returns k2.                                               *)
DocExampleExistingValue ==
    \A k1, k2 \in Keys, v \in Values :
        (/\ k1 # k2
         /\ Called("set")
         /\ call.args = <<k2, v>>
         /\ pre = set(EmptyMap, k1, v))
            => /\ size(This) = 1
               /\ get(This, k1) = v
               /\ getReverse(This, v) = k2

(* C8: for a pair (k, v) in the container, delete(k) returns true,         *)
(* afterwards get(k) and getReverse(v) are absent and size is one less;    *)
(* a repeated delete(k) returns false.                                     *)
DeleteRemovesPair ==
    (Called("delete") /\ has(pre, call.args[1])) =>
        LET k == call.args[1]
            v == get(pre, k)
        IN  /\ ret = TRUE
            /\ get(This, k) = Undefined
            /\ ~has(This, k)
            /\ getReverse(This, v) = Undefined
            /\ ~hasReverse(This, v)
            /\ size(This) + 1 = size(pre)
            /\ delete(This, k).ret = FALSE

(* C8 witness: delete of a present key returned. *)
DeleteRemovesPairWitness ==
    /\ Called("delete")
    /\ has(pre, call.args[1])
    /\ size(pre) = 2
    /\ ret = TRUE

(* C9: from a state holding the pair (k, v), deleteReverse(v) and          *)
(* delete(k) return the same boolean (true) and lead to the same forward   *)
(* and reverse mappings; a repeated deleteReverse(v) returns false.        *)
DeleteReverseMirrorsDelete ==
    (Called("deleteReverse") /\ hasReverse(pre, call.args[1])) =>
        LET v == call.args[1]
            k == getReverse(pre, v)
        IN  /\ get(pre, k) = v
            /\ ret = TRUE
            /\ delete(pre, k).ret = ret
            /\ delete(pre, k).this = This
            /\ deleteReverse(This, v).ret = FALSE

(* C9 witness: deleteReverse of a present value returned. *)
DeleteReverseMirrorsDeleteWitness ==
    /\ Called("deleteReverse")
    /\ hasReverse(pre, call.args[1])
    /\ size(pre) = 2
    /\ size(This) = 1

(* C10: a stored `undefined` key or value is not taken for "absent": set   *)
(* still evicts the stale counterparts, delete(k) and deleteReverse(v) of  *)
(* a present entry return true and remove it, and I1 and I3 hold.          *)
UndefinedIsData ==
    /\ \A k \in KeysU, v \in ValuesU :
           (has(This, k) /\ get(This, k) = v)
               <=> (hasReverse(This, v) /\ getReverse(This, v) = k)
    /\ MapSize(forward) = RevSize(reverseMap)
    /\ (Called("delete") /\ has(pre, call.args[1]))
           => (ret = TRUE /\ ~has(This, call.args[1]))
    /\ (Called("deleteReverse") /\ hasReverse(pre, call.args[1]))
           => (ret = TRUE /\ ~hasReverse(This, call.args[1]))

(* C11: from any reachable state, clear() empties both mappings: size is   *)
(* 0 and get, getReverse, has and hasReverse report absent for every key   *)
(* and value that was present before.                                      *)
ClearEmptiesBoth ==
    Called("clear") =>
        /\ size(This) = 0
        /\ RevSize(reverseMap) = 0
        /\ \A k \in Keys :
               has(pre, k) => (get(This, k) = Undefined /\ ~has(This, k))
        /\ \A v \in Values :
               hasReverse(pre, v)
                   => (getReverse(This, v) = Undefined /\ ~hasReverse(This, v))

(* C11 witness: clear() returned on a container that held three entries. *)
ClearEmptiesBothWitness ==
    /\ Called("clear")
    /\ size(pre) = 3
    /\ size(This) = 0

(* C13: get, getReverse, has and hasReverse leave both mappings and size   *)
(* unchanged, and for an absent key or value they return `undefined` (or   *)
(* false) instead of failing.                                              *)
LookupsHaveNoEffect ==
    /\ Called("get") =>
           /\ This = pre
           /\ size(This) = size(pre)
           /\ ~has(pre, call.args[1]) => ret = Undefined
    /\ Called("getReverse") =>
           /\ This = pre
           /\ size(This) = size(pre)
           /\ ~hasReverse(pre, call.args[1]) => ret = Undefined
    /\ Called("has") =>
           /\ This = pre
           /\ size(This) = size(pre)
           /\ ~has(pre, call.args[1]) => ret = FALSE
    /\ Called("hasReverse") =>
           /\ This = pre
           /\ size(This) = size(pre)
           /\ ~hasReverse(pre, call.args[1]) => ret = FALSE

(* C13 witness: getReverse of an absent value returned `undefined` on a    *)
(* container holding two entries.                                          *)
LookupsHaveNoEffectWitness ==
    /\ Called("getReverse")
    /\ ~hasReverse(pre, call.args[1])
    /\ ret = Undefined
    /\ size(This) = 2

(* C14: set(k, v) evicts exactly the colliding entries: every entry        *)
(* (k2, v2) present before with k2 # k and v2 # v is still present in both *)
(* directions, and every entry with k2 = k or v2 = v other than (k, v)     *)
(* itself is gone.                                                         *)
SetEvictsExactlyCollisions ==
    Called("set") =>
        LET k == call.args[1]
            v == call.args[2]
        IN  /\ get(This, k) = v
            /\ getReverse(This, v) = k
            /\ \A k2 \in Keys, v2 \in Values :
                   (get(pre, k2) = v2 /\ k2 # k /\ v2 # v)
                       => (get(This, k2) = v2 /\ getReverse(This, v2) = k2)
            /\ \A k2 \in Keys, v2 \in Values :
                   (get(pre, k2) = v2 /\ (k2 = k \/ v2 = v) /\ <<k2, v2>> # <<k, v>>)
                       => (get(This, k2) # v2 /\ getReverse(This, v2) # k2)
            /\ \A k2 \in Keys, v2 \in Values :
                   (get(This, k2) = v2 /\ <<k2, v2>> # <<k, v>>)
                       => get(pre, k2) = v2

(* C14 witness: a set that collided on its key and on its value while a    *)
(* third entry stayed.                                                     *)
SetEvictsExactlyCollisionsWitness ==
    /\ DoubleCollision
    /\ size(pre) = 3
    /\ \E k2 \in Keys :
           /\ k2 # call.args[1]
           /\ has(This, k2)
           /\ get(This, k2) = get(pre, k2)

(* The indicator [b] of the size formula. *)
Ind(b) == IF b THEN 1 ELSE 0

(* C15: size after set(k, v) is size + 1 - [k was present] - [v was        *)
(* present] + [(k, v) was present]; it never grows or shrinks by more      *)
(* than 1.                                                                 *)
SetSizeChange ==
    Called("set") =>
        LET k == call.args[1]
            v == call.args[2]
        IN  /\ size(This) + Ind(has(pre, k)) + Ind(hasReverse(pre, v))
                   = size(pre) + 1 + Ind(has(pre, k) /\ get(pre, k) = v)
            /\ size(This) <= size(pre) + 1
            /\ size(pre) <= size(This) + 1

(* C15 witness: a set whose key and value were both present in different   *)
(* entries shrank the container by one.                                    *)
SetSizeChangeWitness ==
    /\ DoubleCollision
    /\ size(pre) = 3
    /\ size(This) = 2

(* C16: delete(k) of a key not in the container and deleteReverse(v) of a  *)
(* value not in the container return false and leave both mappings and     *)
(* size unchanged.                                                         *)
FailedRemovalIsNoOp ==
    /\ (Called("delete") /\ ~has(pre, call.args[1]))
           => (ret = FALSE /\ This = pre /\ size(This) = size(pre))
    /\ (Called("deleteReverse") /\ ~hasReverse(pre, call.args[1]))
           => (ret = FALSE /\ This = pre /\ size(This) = size(pre))

(* C16 witness: delete of a missing key returned on a container holding    *)
(* two entries.                                                            *)
FailedRemovalIsNoOpWitness ==
    /\ Called("delete")
    /\ ~has(pre, call.args[1])
    /\ size(pre) = 2
    /\ ret = FALSE

(* The forward order that C18 describes for set(k, v) on the entries f:    *)
(* entries holding v under another key are dropped, k is rewritten where   *)
(* it stands, or appended when it is new.                                  *)
ExpectedOrder(f, k, v) ==
    LET stays(e) == e[1] = k \/ e[2] # v
        kept == SelectSeq(f, stays)
    IN  IF \E i \in 1..Len(f) : f[i][1] = k
        THEN [i \in 1..Len(kept) |->
                 IF kept[i][1] = k THEN <<k, v>> ELSE kept[i]]
        ELSE Append(kept, <<k, v>>)

(* C18: forward iteration follows insertion order under evictions:         *)
(* set(k, v2) on a present key keeps k at its position (the key evicted by *)
(* v2, if any, leaves its position); set(k2, v) with a new key k2 removes  *)
(* the holder of v and appends k2; all other entries keep their order.     *)
IterationOrderUnderEviction ==
    Called("set") =>
        forward = ExpectedOrder(pre.forward, call.args[1], call.args[2])

(* C18 witness: the first of three keys was set to the value of the        *)
(* second: it stays first, the second is gone, the third follows.          *)
IterationOrderUnderEvictionWitness ==
    /\ DoubleCollision
    /\ size(pre) = 3
    /\ pre.forward[1][1] = call.args[1]
    /\ pre.forward[2][2] = call.args[2]
    /\ forward = <<<<call.args[1], call.args[2]>>, pre.forward[3]>>

(* The entries of the forward mapping, without their order. *)
Contents(this) == {this.forward[i] : i \in 1..Len(this.forward)}

(* C19: set(k, v) with (k, v) already present leaves the forward contents, *)
(* the reverse contents and size unchanged, so a second set(k, v) right    *)
(* after a set(k, v) changes nothing.                                      *)
SetIsIdempotent ==
    Called("set") =>
        LET k == call.args[1]
            v == call.args[2]
            again == set(This, k, v)
        IN  /\ (has(pre, k) /\ get(pre, k) = v) =>
                   /\ Contents(This) = Contents(pre)
                   /\ reverseMap = pre.reverseMap
                   /\ size(This) = size(pre)
            /\ Contents(again) = Contents(This)
            /\ again.reverseMap = reverseMap
            /\ size(again) = size(This)
            /\ get(again, k) = v

(* C19 witness: set of a pair that one of two entries already held. *)
SetIsIdempotentWitness ==
    /\ Called("set")
    /\ has(pre, call.args[1])
    /\ get(pre, call.args[1]) = call.args[2]
    /\ size(pre) = 2
    /\ size(This) = 2

(* C12: constructing from an ordered sequence of pairs yields the same     *)
(* forward and reverse mappings as creating an empty container and calling *)
(* set for each pair in that order; later pairs evict earlier ones that    *)
(* collide on key or value.                                                *)
ConstructorIsSetInOrder ==
    /\ forward = constructor(sets).forward
    /\ reverseMap = constructor(sets).reverseMap

(* C12 witness: three pairs were set, each evicting the one before it. *)
ConstructorIsSetInOrderWitness ==
    /\ Len(sets) = 3
    /\ sets[1][1] = sets[2][1]
    /\ sets[2][2] = sets[3][2]
    /\ sets[1][2] # sets[2][2]
    /\ sets[2][1] # sets[3][1]
    /\ size(This) = 1
    /\ size(constructor(sets)) = 1

(* I1 and I3 of a container, as an observer checks them by the lookups. *)
Consistent(this) ==
    /\ \A k \in Keys, v \in Values :
           (get(this, k) = v) <=> (getReverse(this, v) = k)
    /\ size(this) = RevSize(this.reverseMap)

(* C17: the mutators are not atomic for a concurrent observer: between two *)
(* statements of set, delete or deleteReverse the observer can read        *)
(* mappings that are not inverses (the witness), while what it reads when  *)
(* no mutator runs is consistent, and when the mutator returns the         *)
(* invariant is restored, with the result of the whole operation.          *)
RestoredOnReturn ==
    /\ At("idle") => Consistent(This)
    /\ observed.at = "idle" => Consistent(observed.this)
    /\ (At("idle") /\ Called("set")) =>
           (This = set(pre, call.args[1], call.args[2]) /\ ret = "this")
    /\ (At("idle") /\ Called("delete")) =>
           [this |-> This, ret |-> ret] = delete(pre, call.args[1])
    /\ (At("idle") /\ Called("deleteReverse")) =>
           [this |-> This, ret |-> ret] = deleteReverse(pre, call.args[1])

(* C17 witness: the observer read mappings that are not inverses between   *)
(* two statements of a mutator, and the mutator has since returned with    *)
(* the invariant restored.                                                 *)
ObserverSawInconsistency ==
    /\ observed.at \notin {"never", "idle"}
    /\ ~Consistent(observed.this)
    /\ At("idle")
    /\ Consistent(This)

===========================================================================
